---- MODULE Spec2Model ----
(***************************************************************************)
(* The A2A handler of app/agent/a2a_handler.py: a JSON-RPC-2.0 style       *)
(* dispatcher with a method registry, batch handling and an error          *)
(* envelope, together with the A2AService handlers it dispatches to.       *)
(*                                                                         *)
(* Python strings are sequences of tokens, so that formatting (f-strings,  *)
(* str(e)) is concatenation and len() is Len.  A JSON value that is a      *)
(* string is such a sequence; the call context object and a caller's       *)
(* context mapping are one-token sequences of their own.                   *)
(***************************************************************************)
EXTENDS Integers, Sequences, FiniteSets, TLC

VARIABLES methods, llm_up, pc, body, idx, results, response, invoked, http_status, svc, inflight

vars == <<methods, llm_up, pc, body, idx, results, response, invoked, http_status, svc, inflight>>

\* Longest array payload the model submits.
MaxBatch == 2

(***************************************************************************)
(* JSON payloads                                                           *)
(***************************************************************************)

\* The A2ARequestContext built from the transport request.
CallContext == <<"<A2ARequestContext>">>

\* A context mapping supplied by the caller under the key "context".
CallerContext == <<"{caller-context}">>

\* A JSON number sent where a handler expects a string.
IntValue == <<"<int>">>

NoKw == [k \in {} |-> <<>>]

AbsentParams == [t |-> "absent", kw |-> NoKw, pos |-> <<>>]
DictParams(f) == [t |-> "dict", kw |-> f, pos |-> <<>>]
ListParams(s) == [t |-> "list", kw |-> NoKw, pos |-> s]
StrParams == [t |-> "str", kw |-> NoKw, pos |-> <<>>]

AbsentId == [t |-> "absent", v |-> 0]
IntId(n) == [t |-> "int", v |-> n]
\* The JSON string whose text is the decimal numeral of n.
StrId(n) == [t |-> "str", v |-> n]

AbsentMethod == [t |-> "absent", v |-> ""]
StrMethod(s) == [t |-> "str", v |-> s]

Object(m, p, i) == [json |-> "object", method |-> m, params |-> p, id |-> i]
\* A unit that is a JSON number, not an object.
Number == [json |-> "number", method |-> AbsentMethod, params |-> AbsentParams, id |-> AbsentId]
\* The JSON object {}.
EmptyObject == Object(AbsentMethod, AbsentParams, AbsentId)

Msg(s) == [k \in {"message"} |-> s]
MsgCtx(s) == [k \in {"message", "context"} |-> IF k = "message" THEN s ELSE CallerContext]

\* The request units the model submits, alone or inside an array.
Units ==
  { Object(StrMethod("ping"), AbsentParams, IntId(1)),
    Object(StrMethod("echo"), DictParams(Msg(<<"a">>)), StrId(1)),
    Object(StrMethod("echo"), ListParams(<<(<<"b", "b">>)>>), IntId(2)),
    Object(StrMethod("ping"), AbsentParams, AbsentId),
    Object(StrMethod("nope"), AbsentParams, IntId(1)),
    Object(AbsentMethod, AbsentParams, IntId(1)),
    Object(StrMethod("echo"), StrParams, IntId(1)),
    Number,
    Object(StrMethod("ai.chat"), DictParams(Msg(<<>>)), IntId(1)),
    Object(StrMethod("ai.chat"), DictParams(Msg(<<"a">>)), IntId(2)),
    Object(StrMethod("ping"), DictParams(Msg(<<"a">>)), IntId(1)),
    Object(StrMethod("echo"), DictParams(Msg(IntValue)), IntId(1)),
    Object(StrMethod("echo"), DictParams(Msg(<<"b", "b">>)), IntId(2)),
    Object(StrMethod("ai.chat"), DictParams(MsgCtx(<<"a">>)), IntId(1)),
    Object(StrMethod("ai.chat"), AbsentParams, IntId(1)),
    Object(StrMethod(""), AbsentParams, IntId(1)) }

\* The units the model puts inside arrays: a success of each handler, a unit
\* without id, and one unit of each kind of failure.
BatchUnits ==
  { Object(StrMethod("ping"), AbsentParams, IntId(1)),
    Object(StrMethod("echo"), DictParams(Msg(<<"a">>)), StrId(1)),
    Object(StrMethod("echo"), DictParams(Msg(<<"b", "b">>)), IntId(2)),
    Object(StrMethod("ping"), AbsentParams, AbsentId),
    Object(StrMethod("nope"), AbsentParams, IntId(1)),
    Number,
    Object(StrMethod("ai.chat"), DictParams(Msg(<<>>)), IntId(1)),
    Object(StrMethod("ai.chat"), DictParams(Msg(<<"a">>)), IntId(2)),
    Object(StrMethod("echo"), DictParams(Msg(IntValue)), IntId(1)) }

RECURSIVE SeqsUpTo(_, _)
SeqsUpTo(S, n) ==
  IF n = 0 THEN {<<>>}
  ELSE LET shorter == SeqsUpTo(S, n - 1)
       IN shorter \cup {Append(s, u) : s \in {q \in shorter : Len(q) = n - 1}, u \in S}

Decoded(kind, unit, items) == [json |-> kind, unit |-> unit, items |-> items]

\* What request.json() yields: a decode failure, null, one unit, or an array.
Payloads ==
  {Decoded("undecodable", EmptyObject, <<>>), Decoded("null", EmptyObject, <<>>),
   Decoded("object", EmptyObject, <<>>)}
  \cup {Decoded(u.json, u, <<>>) : u \in Units}
  \cup {Decoded("array", EmptyObject, s) : s \in SeqsUpTo(BatchUnits \cup {EmptyObject}, MaxBatch)}

\* The units the model submits in notification mode.
NotificationUnits ==
  { Object(StrMethod("ping"), AbsentParams, AbsentId),
    Object(StrMethod("echo"), DictParams(Msg(<<"a">>)), AbsentId),
    Object(StrMethod("nope"), AbsentParams, AbsentId),
    Object(StrMethod("ping"), AbsentParams, IntId(1)),
    Number,
    Object(StrMethod("ai.chat"), AbsentParams, AbsentId) }

NotificationPayloads ==
  {Decoded("undecodable", EmptyObject, <<>>), Decoded("null", EmptyObject, <<>>),
   Decoded("object", EmptyObject, <<>>)}
  \cup {Decoded(u.json, u, <<>>) : u \in NotificationUnits}
  \cup {Decoded("array", EmptyObject, s) :
          s \in SeqsUpTo(NotificationUnits \cup {EmptyObject}, MaxBatch)}

NoBody == Decoded("null", EmptyObject, <<>>)

\* (mutation) an empty array counts as a body.
Truthy_EmptyArrayPasses(b) ==
  CASE b.json = "null" -> FALSE
    [] b.json = "array" -> TRUE
    [] b.json = "object" -> b.unit # EmptyObject
    [] OTHER -> TRUE

\* Python truthiness of the decoded body (`if not body`).
Truthy(b) ==
  CASE b.json = "null" -> FALSE
    [] b.json = "array" -> Len(b.items) > 0
    [] b.json = "object" -> b.unit # EmptyObject
    [] OTHER -> TRUE

(***************************************************************************)
(* Error envelope                                                          *)
(***************************************************************************)

BAD_REQUEST == "bad_request"
NOT_FOUND == "not_found"
INTERNAL_ERROR == "internal_error"

\* The members of ErrorType.
ErrorTypes ==
  {"validation_error", NOT_FOUND, "unauthorized", "forbidden", INTERNAL_ERROR, BAD_REQUEST,
   "service_unavailable"}

\* (mutation) the suggestion is left at its default, None.
ErrorResponseCreate_NoSuggestion(error_type, message, suggestion) ==
  [success |-> FALSE,
   error |-> [type |-> error_type, message |-> message, suggestion |-> <<>>],
   meta |-> NoKw]

\* ErrorResponse.create(...).model_dump(exclude_none=True)
ErrorResponseCreate(error_type, message, suggestion) ==
  [success |-> FALSE,
   error |-> [type |-> error_type, message |-> message, suggestion |-> suggestion],
   meta |-> NoKw]

\* A2AResult.success(data).to_dict()
A2AResultSuccess(data) == [success |-> TRUE, data |-> data]

\* A2AResult.error(error).to_dict()
A2AResultError(error) == [success |-> FALSE, error |-> error]

\* The envelope's classified kind, message and suggestion.
Kind(env) == env.error.error.type
Message(env) == env.error.error.message
Suggestion(env) == env.error.error.suggestion

(***************************************************************************)
(* Request parsing: the A2ARequest model built from a unit                 *)
(***************************************************************************)

\* The parsed id: None when the unit carries no id, else the value as sent.
NoneId == [t |-> "none", v |-> 0]

\* (mutation) every id that is present is turned into a string.
ParsedId_AsString(i) == IF i.t = "absent" THEN NoneId ELSE StrId(i.v)

ParsedId(i) == IF i.t = "absent" THEN NoneId ELSE i

\* The A2ARequest constructor applied to the unpacked unit: a unit that is not a mapping cannot be unpacked
\* (TypeError); a missing or non-string method and a params value that is
\* neither a mapping nor a list fail validation (ValidationError).
A2ARequest(data) ==
  IF data.json # "object"
    THEN [ok |-> FALSE, exc |-> "TypeError", method |-> "", params |-> AbsentParams, id |-> NoneId]
  ELSE IF data.method.t # "str" \/ data.params.t = "str"
    THEN [ok |-> FALSE, exc |-> "ValidationError", method |-> "", params |-> AbsentParams, id |-> NoneId]
  ELSE [ok |-> TRUE, exc |-> "", method |-> data.method.v, params |-> data.params,
        id |-> ParsedId(data.id)]

\* The A2ANotification constructor: an A2ARequest whose id field only admits
\* None, so a unit that carries an id fails validation.
A2ANotification(data) ==
  IF A2ARequest(data).ok /\ data.id.t # "absent"
    THEN [ok |-> FALSE, exc |-> "ValidationError", method |-> "", params |-> AbsentParams, id |-> NoneId]
  ELSE A2ARequest(data)

(***************************************************************************)
(* Protocol errors and other failures                                      *)
(***************************************************************************)

Digit(d) == CASE d = 0 -> "0" [] d = 1 -> "1" [] d = 2 -> "2" [] d = 3 -> "3" [] d = 4 -> "4"
              [] d = 5 -> "5" [] d = 6 -> "6" [] d = 7 -> "7" [] d = 8 -> "8" [] d = 9 -> "9"

RECURSIVE Digits(_)
Digits(n) == IF n < 10 THEN <<Digit(n)>> ELSE Append(Digits(n \div 10), Digit(n % 10))

\* str(n) for an integer n.
FormatInt(n) == IF n < 0 THEN <<"-">> \o Digits(0 - n) ELSE Digits(n)

NoValue == [none |-> TRUE]

\* The three ways a handler call ends.
Return(v) == [kind |-> "return", code |-> 0, message |-> <<>>, value |-> v]
\* raise A2AError(code, message)
A2AError(code, message) == [kind |-> "A2AError", code |-> code, message |-> message, value |-> NoValue]
\* raise of any other Exception whose str() is text
Raise(text) == [kind |-> "Exception", code |-> 0, message |-> text, value |-> NoValue]

\* str(e): A2AError passes "[code] message" to Exception.__init__; every
\* other exception prints its message.
StrOfException(e) ==
  IF e.kind = "A2AError" THEN <<"[">> \o FormatInt(e.code) \o <<"] ">> \o e.message
  ELSE e.message

INVALID_PARAMS == 0 - 32602
INTERNAL_ERROR_CODE == 0 - 32603

(***************************************************************************)
(* A2AService handlers                                                     *)
(***************************************************************************)

HandlerIds ==
  {"ping", "echo", "ai_chat", "get_capabilities", "get_status", "ai_complete", "ai_review_code",
   "ai_explain_code", "create_task", "get_task_status", "cancel_task"}

\* The declared parameters of each handler (self excluded), in order.
Parameters(h) ==
  CASE h = "ping" -> <<>>
    [] h = "echo" -> <<"message">>
    [] h = "ai_chat" -> <<"message", "context">>
    [] h = "get_capabilities" -> <<>>
    [] h = "get_status" -> <<>>
    [] h = "ai_complete" -> <<"prompt", "max_tokens">>
    [] h = "ai_review_code" -> <<"code", "language">>
    [] h = "ai_explain_code" -> <<"code", "language">>
    [] h = "create_task" -> <<"method", "params">>
    [] h = "get_task_status" -> <<"task_id">>
    [] h = "cancel_task" -> <<"task_id">>

\* How many of them have no default.
Required(h) ==
  CASE h \in {"ping", "get_capabilities", "get_status"} -> 0
    [] h = "create_task" -> 2
    [] OTHER -> 1

\* handler.__annotations__
Annotations(h) == {Parameters(h)[k] : k \in 1..Len(Parameters(h))} \cup {"return"}

NoneValue == <<"<None>">>
EmptyDict == <<"{}">>

\* Python truthiness of a value.
Falsy(v) == v = <<>> \/ v = NoneValue \/ v = EmptyDict

IsStr(v) ==
  v \notin {NoneValue, EmptyDict, CallContext, CallerContext, IntValue, <<"{message: a}">>,
            <<"{message: ''}">>}

\* Whether len(v) is defined.
Sized(v) == v \notin {NoneValue, CallContext, IntValue}

KwArgs(f) == [style |-> "kw", kw |-> f, pos |-> <<>>]
PosArgs(s) == [style |-> "pos", kw |-> NoKw, pos |-> s]

Names(h) == {Parameters(h)[k] : k \in 1..Len(Parameters(h))}
RequiredNames(h) == {Parameters(h)[k] : k \in 1..Required(h)}

\* Python's argument binding for a keyword call and for a positional call.
Binds(h, args) ==
  IF args.style = "kw"
    THEN DOMAIN args.kw \subseteq Names(h) /\ RequiredNames(h) \subseteq DOMAIN args.kw
    ELSE Len(args.pos) <= Len(Parameters(h)) /\ Len(args.pos) >= Required(h)

\* The value bound to parameter number k; an omitted optional one is None.
Arg(h, args, k) ==
  IF args.style = "kw"
    THEN IF Parameters(h)[k] \in DOMAIN args.kw THEN args.kw[Parameters(h)[k]] ELSE NoneValue
    ELSE IF k <= Len(args.pos) THEN args.pos[k] ELSE NoneValue

ArityError == Raise(<<"TypeError: ", "unexpected or missing argument">>)

ping == Return([status |-> "pong", timestamp |-> "2024-01-01T00:00:00Z", agent |-> "AI Code Reviewer"])

\* (mutation) the length reported is that of the params mapping.
echo_CountsParams(message) ==
  IF ~Sized(message) THEN Raise(<<"TypeError: ", "object has no len()">>)
  ELSE Return([echo |-> message, length |-> 1])

echo(message) ==
  IF ~Sized(message) THEN Raise(<<"TypeError: ", "object has no len()">>)
  ELSE Return([echo |-> message, length |-> Len(message)])

BackendFailure == <<"backend failure detail">>
BackendText == <<"generated text">>

\* LLMService.get_response(user_input)
get_response(user_input, up) ==
  IF Falsy(user_input) \/ ~IsStr(user_input)
    THEN Raise(<<"Input must be a non-empty string">>)
  ELSE IF ~up
    THEN Raise(<<"Failed to get response from LLM service: ">> \o BackendFailure)
  ELSE Return(BackendText)

\* The `except Exception as e: raise A2AError(-32603, ...)` around a body.
WrapInternal(outcome) ==
  IF outcome.kind = "return" THEN outcome
  ELSE A2AError(INTERNAL_ERROR_CODE, <<"Internal error: ">> \o StrOfException(outcome))

ai_chat(message, context, up) ==
  WrapInternal(
    IF Falsy(message)
      THEN A2AError(INVALID_PARAMS, <<"Invalid params: message is required">>)
    ELSE LET r == get_response(message, up)
         IN IF r.kind # "return" THEN r
            ELSE Return([response |-> r.value,
                         context |-> IF Falsy(context) THEN EmptyDict ELSE context,
                         model |-> "mistral_model",
                         timestamp |-> "2024-01-01T00:00:00Z"]))

\* The methods list of the mapping get_capabilities returns.
CapabilitiesMethods ==
  <<"ping", "echo", "capabilities", "status", "ai.chat", "ai.complete", "ai.review_code",
    "ai.explain_code", "task.create", "task.status", "task.cancel">>

get_capabilities ==
  Return([agent_type |-> "ai_code_reviewer", version |-> "1.0.0",
          capabilities |-> <<"code_review", "code_explanation", "ai_chat", "text_completion">>,
          methods |-> CapabilitiesMethods])

\* LLMService.health_check(): a failure of get_response becomes "unhealthy".
health_check(up) ==
  LET r == get_response(<<"Hello! Are you working?">>, up)
  IN IF r.kind = "return" THEN [status |-> "healthy", detail |-> r.value]
     ELSE [status |-> "unhealthy", detail |-> StrOfException(r)]

get_status(up) ==
  Return([status |-> "online",
          health |-> IF health_check(up).status = "healthy" THEN "healthy" ELSE "degraded",
          services |-> [llm |-> health_check(up)],
          uptime |-> "unknown", load |-> "normal"])

\* len(text.split()): the backend's text is the two words "generated text".
WordCount(text) == IF text = BackendText THEN 2 ELSE Len(text)

ai_complete(prompt, max_tokens, up) ==
  WrapInternal(
    IF Falsy(prompt)
      THEN A2AError(INVALID_PARAMS, <<"Invalid params: prompt is required">>)
    ELSE LET r == get_response(prompt, up)
         IN IF r.kind # "return" THEN r
            ELSE Return([completion |-> r.value, model |-> "mistral_model",
                         tokens_used |-> WordCount(r.value),
                         timestamp |-> "2024-01-01T00:00:00Z"]))

\* f"Please review this {language or 'code'}: ... {code} ..." and its
\* counterpart in ai_explain_code.
CodePrompt(verb, code, language) ==
  <<"Please ", verb, " this ">> \o (IF Falsy(language) THEN <<"code">> ELSE language)
    \o <<":">> \o code

ai_review_code(code, language, up) ==
  WrapInternal(
    IF Falsy(code)
      THEN A2AError(INVALID_PARAMS, <<"Invalid params: code is required">>)
    ELSE LET r == get_response(CodePrompt("review", code, language), up)
         IN IF r.kind # "return" THEN r
            ELSE IF ~Sized(code) THEN Raise(<<"TypeError: ", "object has no len()">>)
            ELSE Return([review |-> r.value, language |-> language,
                         code_length |-> Len(code), timestamp |-> "2024-01-01T00:00:00Z"]))

ai_explain_code(code, language, up) ==
  WrapInternal(
    IF Falsy(code)
      THEN A2AError(INVALID_PARAMS, <<"Invalid params: code is required">>)
    ELSE LET r == get_response(CodePrompt("explain", code, language), up)
         IN IF r.kind # "return" THEN r
            ELSE IF ~Sized(code) THEN Raise(<<"TypeError: ", "object has no len()">>)
            ELSE Return([explanation |-> r.value, language |-> language,
                         code_length |-> Len(code), timestamp |-> "2024-01-01T00:00:00Z"]))

METHOD_NOT_FOUND == 0 - 32601

\* JSON mappings that are sent as the value of a parameter.
ChatParamsValue == <<"{message: a}">>
EmptyMessageValue == <<"{message: ''}">>

IsMapping(v) == v \in {EmptyDict, ChatParamsValue, EmptyMessageValue}

\* The named arguments a mapping value unpacks to.
Unpacked(v) ==
  CASE v = ChatParamsValue -> KwArgs(Msg(<<"a">>))
    [] v = EmptyMessageValue -> KwArgs(Msg(<<>>))
    [] OTHER -> KwArgs(NoKw)

\* The methods create_task runs, and the handler it calls for each.
TaskMethods == {<<"ai.chat">>, <<"ai.review_code">>, <<"ai.explain_code">>}

TaskHandler(method) ==
  CASE method = <<"ai.chat">> -> "ai_chat"
    [] method = <<"ai.review_code">> -> "ai_review_code"
    [] method = <<"ai.explain_code">> -> "ai_explain_code"

\* A direct call of one of the AI handlers, as create_task makes it.
CallService(h, args, up) ==
  IF ~Binds(h, args) THEN ArityError
  ELSE CASE h = "ai_chat" -> ai_chat(Arg(h, args, 1), Arg(h, args, 2), up)
         [] h = "ai_review_code" -> ai_review_code(Arg(h, args, 1), Arg(h, args, 2), up)
         [] h = "ai_explain_code" -> ai_explain_code(Arg(h, args, 1), Arg(h, args, 2), up)

create_task(method, params, up) ==
  WrapInternal(
    IF method \in TaskMethods
      THEN IF ~IsMapping(params)
             THEN Raise(<<"TypeError: ", "argument after ** must be a mapping">>)
           ELSE LET result == CallService(TaskHandler(method), Unpacked(params), up)
                IN IF result.kind # "return" THEN result
                   ELSE Return([task_id |-> <<"task_", "hash(">> \o params \o <<")">>,
                                status |-> "completed", result |-> result.value,
                                created_at |-> "2024-01-01T00:00:00Z",
                                completed_at |-> "2024-01-01T00:00:00Z"])
    ELSE A2AError(METHOD_NOT_FOUND, <<"Method not found: ">> \o method))

get_task_status(task_id) ==
  Return([task_id |-> task_id, status |-> "completed",
          message |-> "Task status tracking not fully implemented"])

cancel_task(task_id) ==
  Return([task_id |-> task_id, status |-> "cancelled",
          message |-> "Task cancellation not fully implemented"])

\* The awaited handler call, with keyword or positional arguments.
Invoke(h, args, up) ==
  IF ~Binds(h, args) THEN ArityError
  ELSE CASE h = "ping" -> ping
         [] h = "echo" -> echo(Arg(h, args, 1))
         [] h = "ai_chat" -> ai_chat(Arg(h, args, 1), Arg(h, args, 2), up)
         [] h = "get_capabilities" -> get_capabilities
         [] h = "get_status" -> get_status(up)
         [] h = "ai_complete" -> ai_complete(Arg(h, args, 1), Arg(h, args, 2), up)
         [] h = "ai_review_code" -> ai_review_code(Arg(h, args, 1), Arg(h, args, 2), up)
         [] h = "ai_explain_code" -> ai_explain_code(Arg(h, args, 1), Arg(h, args, 2), up)
         [] h = "create_task" -> create_task(Arg(h, args, 1), Arg(h, args, 2), up)
         [] h = "get_task_status" -> get_task_status(Arg(h, args, 1))
         [] h = "cancel_task" -> cancel_task(Arg(h, args, 1))

(***************************************************************************)
(* Request dispatcher: A2AHandler._process_single_request                  *)
(***************************************************************************)

\* (mutation) absent params become an empty list.
ParamsOrEmpty_AbsentAsList(p) ==
  IF p.t = "list" /\ Len(p.pos) > 0 THEN PosArgs(p.pos)
  ELSE IF p.t = "dict" THEN KwArgs(p.kw)
  ELSE PosArgs(<<>>)

\* `a2a_request.params or {}`: None, {} and [] all become the empty mapping.
ParamsOrEmpty(p) ==
  IF p.t = "list" /\ Len(p.pos) > 0 THEN PosArgs(p.pos)
  ELSE IF p.t = "dict" THEN KwArgs(p.kw)
  ELSE KwArgs(NoKw)

\* (mutation) a caller's own "context" key is kept.
InjectContext_KeepCaller(handler, params) ==
  IF "context" \notin Annotations(handler) THEN params
  ELSE IF params.style = "kw"
    THEN KwArgs([k \in DOMAIN params.kw \cup {"context"} |->
                   IF k \in DOMAIN params.kw THEN params.kw[k] ELSE CallContext])
    ELSE PosArgs(Append(params.pos, CallContext))

\* (mutation) the call context is put in front of the positional arguments.
InjectContext_ContextFirst(handler, params) ==
  IF "context" \notin Annotations(handler) THEN params
  ELSE IF params.style = "kw"
    THEN KwArgs([k \in DOMAIN params.kw \cup {"context"} |->
                   IF k = "context" THEN CallContext ELSE params.kw[k]])
    ELSE PosArgs(<<CallContext>> \o params.pos)

\* A handler with `context` among its annotations gets the call context:
\* stored under the key "context" of a mapping, appended to a list.
InjectContext(handler, params) ==
  IF "context" \notin Annotations(handler) THEN params
  ELSE IF params.style = "kw"
    THEN KwArgs([k \in DOMAIN params.kw \cup {"context"} |->
                   IF k = "context" THEN CallContext ELSE params.kw[k]])
    ELSE PosArgs(Append(params.pos, CallContext))

SuccessEnvelope(id, result) ==
  A2AResultSuccess([jsonrpc |-> "2.0", id |-> id, result |-> result])

\* (mutation) the message does not name the method.
NotFoundMessage_NoName(method) == <<"Method not found">>

NotFoundMessage(method) == <<"Method '", method, "' not found">>

MethodNotFound(method) ==
  A2AResultError(ErrorResponseCreate(NOT_FOUND, NotFoundMessage(method),
                                     <<"Check the method name and try again">>))

\* (mutation) the message is the error's message attribute, without the code.
ProtocolErrorMessage_Bare(e) == e.message

\* The message of the envelope built in `except A2AError as e`.
ProtocolErrorMessage(e) == StrOfException(e)

ProtocolError(e) ==
  A2AResultError(ErrorResponseCreate(BAD_REQUEST, ProtocolErrorMessage(e),
                                     <<"Check your request parameters and try again">>))

\* (mutation) the text of the failure is appended to the message.
ExecutionErrorMessage_Leaky(method, e) == <<"Error executing ", method, ": ">> \o e.message

\* The message of the envelope built in the inner `except Exception as e`.
ExecutionErrorMessage(method, e) == <<"Error executing ", method>>

ExecutionError(method, e) ==
  A2AResultError(ErrorResponseCreate(INTERNAL_ERROR, ExecutionErrorMessage(method, e),
                                     <<"Please try again later">>))

\* (mutation) there is no catch-all: the failure leaves the dispatcher as it is.
ProcessingError_Propagates == [success |-> FALSE, raised |-> <<"Exception">>]

\* The envelope of the outer `except Exception` of _process_single_request,
\* and of the `except Exception` of handle_request, which build the same one.
ProcessingError ==
  A2AResultError(ErrorResponseCreate(INTERNAL_ERROR,
                                     <<"An error occurred while processing your request">>,
                                     <<"Please try again later">>))

InvalidJson ==
  A2AResultError(ErrorResponseCreate(BAD_REQUEST, <<"Invalid JSON in request body">>,
                                     <<"Please check your request body is valid JSON">>))

\* The envelope for each way the handler call ends.
Outcome(req, outcome) ==
  CASE outcome.kind = "return" -> SuccessEnvelope(req.id, outcome.value)
    [] outcome.kind = "A2AError" -> ProtocolError(outcome)
    [] outcome.kind = "Exception" -> ExecutionError(req.method, outcome)

\* What the log keeps of one handler call: the handler, the arguments it was
\* called with, whether the call bound them, and how the call ended.
Call(handler, args, up) ==
  [handler |-> handler, args |-> args, entered |-> Binds(handler, args),
   outcome |-> Invoke(handler, args, up)]

\* (mutation) a handler call that fails is made a second time.
ProcessSingleRequest_Retries(data, reg, up) ==
  LET a2a_request == A2ARequest(data)
  IN IF ~a2a_request.ok THEN [response |-> ProcessingError, calls |-> <<>>]
     ELSE IF a2a_request.method \notin DOMAIN reg
       THEN [response |-> MethodNotFound(a2a_request.method), calls |-> <<>>]
     ELSE LET handler == reg[a2a_request.method]
              params == InjectContext(handler, ParamsOrEmpty(a2a_request.params))
          IN [response |-> Outcome(a2a_request, Invoke(handler, params, up)),
              calls |-> IF Invoke(handler, params, up).kind = "return"
                          THEN <<Call(handler, params, up)>>
                          ELSE <<Call(handler, params, up), Call(handler, params, up)>>]

\* One unit through the dispatcher: the envelope it returns and the handler
\* calls it makes.
ProcessSingleRequest(data, reg, up) ==
  LET a2a_request == A2ARequest(data)
  IN IF ~a2a_request.ok THEN [response |-> ProcessingError, calls |-> <<>>]
     ELSE IF a2a_request.method \notin DOMAIN reg
       THEN [response |-> MethodNotFound(a2a_request.method), calls |-> <<>>]
     ELSE LET handler == reg[a2a_request.method]
              params == InjectContext(handler, ParamsOrEmpty(a2a_request.params))
          IN [response |-> Outcome(a2a_request, Invoke(handler, params, up)),
              calls |-> <<Call(handler, params, up)>>]

(***************************************************************************)
(* Notification path: A2AHandler._process_single_notification              *)
(***************************************************************************)

\* (mutation) _process_single_notification logs the failure and raises it again.
NotificationUnitCatch_Reraises(logged) == IF logged = "exception" THEN "Exception" ELSE ""

\* The two `except Exception` clauses of _process_single_notification: the
\* failure is logged and nothing is left to propagate.
NotificationUnitCatch(logged) == ""

\* One unit through the notification path: the handler calls it makes, what
\* is logged and what propagates to handle_notification.  A unit that does
\* not parse, an unknown method and a failing handler are logged.
ProcessSingleNotification(data, reg, up) ==
  LET notification == A2ANotification(data)
  IN IF ~notification.ok
       THEN [calls |-> <<>>, logged |-> "exception", raised |-> NotificationUnitCatch("exception")]
     ELSE IF notification.method \notin DOMAIN reg
       THEN [calls |-> <<>>, logged |-> "warning", raised |-> ""]
     ELSE LET handler == reg[notification.method]
              params == InjectContext(handler, ParamsOrEmpty(notification.params))
              logged == IF Invoke(handler, params, up).kind = "return" THEN "" ELSE "exception"
          IN [calls |-> <<Call(handler, params, up)>>, logged |-> logged,
              raised |-> NotificationUnitCatch(logged)]

\* (mutation) handle_notification has no try around its body.
NotificationCatch_Nothing(exc) == exc

\* The except clauses of handle_notification: JSONDecodeError and every other
\* Exception are logged; what is left to propagate is nothing.
NotificationCatch(exc) == ""

(***************************************************************************)
(* State machine                                                           *)
(***************************************************************************)

RegNames == {"ping", "echo", "ai.chat"}

\* The registrations the model makes: those of A2AService._register_methods
\* for the three handlers, and one that puts another handler under "echo".
Registrations ==
  {<<"ping", "ping">>, <<"echo", "echo">>, <<"ai.chat", "ai_chat">>, <<"echo", "ai_chat">>}

NoEnvelope == [success |-> FALSE, none |-> TRUE]

NoResponse == [shape |-> "none", env |-> NoEnvelope, items |-> <<>>]
Single(env) == [shape |-> "single", env |-> env, items |-> <<>>]
Array(items) == [shape |-> "array", env |-> NoEnvelope, items |-> items]

\* The calls of unit number i, as the log keeps them.
Logged(calls, i) == [k \in 1..Len(calls) |-> [unit |-> i, call |-> calls[k]]]

\* (mutation) once a unit has failed, the results of later units are dropped.
AppendResult_StopAfterFailure(rs, r) ==
  IF \E k \in 1..Len(rs) : ~rs[k].success THEN rs ELSE Append(rs, r)

\* results.append(result)
AppendResult(rs, r) == Append(rs, r)

\* (mutation) a one-element batch is answered with a one-element array.
BatchResult_NoUnwrap(rs) == Array(rs)

\* `results[0] if len(results) == 1 else results`
BatchResult(rs) == IF Len(rs) = 1 THEN Single(rs[1]) ELSE Array(rs)

\* The status a2a_endpoint answers with when handle_request returns a value:
\* the value is returned as it is, so the framework sends 200.
EndpointStatus(resp) == 200

\* (mutation) the loop walks the array from its end.
ItemAt_Reversed(items, i) == items[Len(items) + 1 - i]

\* The i-th item `for item in body` yields.
ItemAt(items, i) == items[i]

Raised == [shape |-> "raised", env |-> NoEnvelope, items |-> <<>>]

\* What the caller of handle_notification gets: None, or the exception that
\* propagates.
NotificationReturn(exc) == IF exc = "" THEN NoResponse ELSE Raised

\* The module globals of a2a_service.py before anything has asked for the
\* service: _a2a_service is None (0); `got` is what the last call of
\* get_a2a_service gave (0: no call yet) and `gets` counts the calls.
NoService(api_key) == [api_key |-> api_key, a2a_service |-> 0, got |-> 0, gets |-> 0]

\* No handle_request call in progress on the event loop.
NoCalls == <<>>

Init ==
  /\ methods = [n \in {} |-> ""]
  /\ llm_up \in BOOLEAN
  /\ pc = "idle"
  /\ body = NoBody
  /\ idx = 1
  /\ results = <<>>
  /\ response = NoResponse
  /\ invoked = <<>>
  /\ http_status = 0
  /\ svc = NoService(TRUE)
  /\ inflight = NoCalls

\* (mutation) a name that is already registered keeps its first handler.
register_method_KeepFirst(name, handler) ==
  /\ pc = "idle"
  /\ methods' = [n \in DOMAIN methods \cup {name} |->
                   IF n \in DOMAIN methods THEN methods[n] ELSE handler]
  /\ UNCHANGED <<svc, inflight, llm_up, pc, body, idx, results, response, invoked, http_status>>

\* A2AHandler.register_method(name, handler)
register_method(name, handler) ==
  /\ pc = "idle"
  /\ methods' = [n \in DOMAIN methods \cup {name} |-> IF n = name THEN handler ELSE methods[n]]
  /\ UNCHANGED <<svc, inflight, llm_up, pc, body, idx, results, response, invoked, http_status>>

\* The language-model backend goes down or comes back between calls.
backend_change ==
  /\ pc = "idle"
  /\ llm_up' = ~llm_up
  /\ UNCHANGED <<svc, inflight, methods, pc, body, idx, results, response, invoked, http_status>>

\* handle_request up to the dispatch on the shape of the body.
handle_request(payload) ==
  /\ pc = "idle"
  /\ body' = payload
  /\ idx' = 1
  /\ results' = <<>>
  /\ invoked' = <<>>
  /\ IF payload.json = "undecodable"
       THEN response' = Single(InvalidJson) /\ pc' = "returned"
     ELSE IF ~Truthy(payload)
       THEN response' = Single(ProcessingError) /\ pc' = "returned"
     ELSE IF payload.json = "array"
       THEN response' = NoResponse /\ pc' = "batch"
     ELSE response' = NoResponse /\ pc' = "single"
  /\ UNCHANGED <<svc, inflight, methods, llm_up, http_status>>

\* (mutation) the dispatcher drops the entry of the method it has just called.
process_single_PopsHandler ==
  /\ pc = "single"
  /\ LET r == ProcessSingleRequest(body.unit, methods, llm_up)
     IN /\ response' = Single(r.response)
        /\ invoked' = invoked \o Logged(r.calls, 1)
        /\ methods' = IF r.calls = <<>> THEN methods
                      ELSE [n \in DOMAIN methods \ {body.unit.method.v} |-> methods[n]]
  /\ pc' = "returned"
  /\ UNCHANGED <<svc, inflight, llm_up, body, idx, results, http_status>>

\* `return await self._process_single_request(body, request)`
process_single ==
  /\ pc = "single"
  /\ LET r == ProcessSingleRequest(body.unit, methods, llm_up)
     IN /\ response' = Single(r.response)
        /\ invoked' = invoked \o Logged(r.calls, 1)
  /\ pc' = "returned"
  /\ UNCHANGED <<svc, inflight, methods, llm_up, body, idx, results, http_status>>

\* One iteration of `for item in body`.
process_item ==
  /\ pc = "batch"
  /\ idx <= Len(body.items)
  /\ LET r == ProcessSingleRequest(ItemAt(body.items, idx), methods, llm_up)
     IN /\ results' = AppendResult(results, r.response)
        /\ invoked' = invoked \o Logged(r.calls, idx)
  /\ idx' = idx + 1
  /\ UNCHANGED <<svc, inflight, methods, llm_up, pc, body, response, http_status>>

\* The return after the loop.
batch_return ==
  /\ pc = "batch"
  /\ idx > Len(body.items)
  /\ response' = BatchResult(results)
  /\ pc' = "returned"
  /\ UNCHANGED <<svc, inflight, methods, llm_up, body, idx, results, invoked, http_status>>

\* a2a_endpoint hands the response to the transport: `return response` is sent
\* with the framework's default status.
a2a_endpoint_return ==
  /\ pc = "returned"
  /\ pc' = "sent"
  /\ http_status' = EndpointStatus(response)
  /\ UNCHANGED <<svc, inflight, methods, llm_up, body, idx, results, response, invoked>>

\* The call is over and its state is dropped.
call_done ==
  /\ pc = "sent"
  /\ pc' = "idle"
  /\ body' = NoBody
  /\ idx' = 1
  /\ results' = <<>>
  /\ response' = NoResponse
  /\ invoked' = <<>>
  /\ http_status' = 0
  /\ UNCHANGED <<svc, inflight, methods, llm_up>>

\* handle_notification up to the dispatch on the shape of the data.
handle_notification(payload) ==
  /\ pc = "idle"
  /\ body' = payload
  /\ idx' = 1
  /\ results' = <<>>
  /\ invoked' = <<>>
  /\ IF payload.json = "undecodable"
       THEN response' = NotificationReturn(NotificationCatch("JSONDecodeError"))
            /\ pc' = "n_returned"
     ELSE IF ~Truthy(payload)
       THEN response' = NoResponse /\ pc' = "n_returned"
     ELSE IF payload.json = "array"
       THEN response' = NoResponse /\ pc' = "n_batch"
     ELSE response' = NoResponse /\ pc' = "n_single"
  /\ UNCHANGED <<svc, inflight, methods, llm_up, http_status>>

\* `await self._process_single_notification(data, request)`
process_single_notification ==
  /\ pc = "n_single"
  /\ LET r == ProcessSingleNotification(body.unit, methods, llm_up)
     IN /\ invoked' = invoked \o Logged(r.calls, 1)
        /\ response' = NotificationReturn(NotificationCatch(r.raised))
  /\ pc' = "n_returned"
  /\ UNCHANGED <<svc, inflight, methods, llm_up, body, idx, results, http_status>>

\* One iteration of `for item in data`.  An exception that left the unit
\* would end the loop in the except clause of handle_notification.
process_notification_item ==
  /\ pc = "n_batch"
  /\ idx <= Len(body.items)
  /\ LET r == ProcessSingleNotification(ItemAt(body.items, idx), methods, llm_up)
     IN /\ invoked' = invoked \o Logged(r.calls, idx)
        /\ response' = NotificationReturn(NotificationCatch(r.raised))
        /\ pc' = IF r.raised = "" THEN "n_batch" ELSE "n_returned"
  /\ idx' = idx + 1
  /\ UNCHANGED <<svc, inflight, methods, llm_up, body, results, http_status>>

\* The end of the loop: handle_notification returns None.
notification_batch_return ==
  /\ pc = "n_batch"
  /\ idx > Len(body.items)
  /\ pc' = "n_returned"
  /\ UNCHANGED <<svc, inflight, methods, llm_up, body, idx, results, response, invoked, http_status>>

\* The caller of handle_notification goes on; the call's state is dropped.
notification_done ==
  /\ pc = "n_returned"
  /\ pc' = "idle"
  /\ body' = NoBody
  /\ idx' = 1
  /\ results' = <<>>
  /\ response' = NoResponse
  /\ invoked' = <<>>
  /\ UNCHANGED <<svc, inflight, methods, llm_up, http_status>>

Next ==
  \/ \E reg \in Registrations : register_method(reg[1], reg[2])
  \/ backend_change
  \/ \E payload \in Payloads : handle_request(payload)
  \/ process_single
  \/ process_item
  \/ batch_return
  \/ a2a_endpoint_return
  \/ call_done
  \/ \E payload \in NotificationPayloads : handle_notification(payload)
  \/ process_single_notification
  \/ process_notification_item
  \/ notification_batch_return
  \/ notification_done

Spec == Init /\ [][Next]_vars

(***************************************************************************)
(* The service as main.py starts it: get_a2a_service() registers the        *)
(* methods of A2AService, and requests are served after that.               *)
(***************************************************************************)

\* Most calls of get_a2a_service the model makes.
MaxGets == 2

\* The register_method calls of A2AService._register_methods, in order.
StartupRegistrations ==
  << <<"ping", "ping">>, <<"echo", "echo">>, <<"capabilities", "get_capabilities">>,
     <<"status", "get_status">>, <<"ai.chat", "ai_chat">>, <<"ai.complete", "ai_complete">>,
     <<"ai.review_code", "ai_review_code">>, <<"ai.explain_code", "ai_explain_code">>,
     <<"task.create", "create_task">>, <<"task.status", "get_task_status">>,
     <<"task.cancel", "cancel_task">> >>

\* self._methods after `self._methods[name] = handler`.
RegistryWith(reg, name, handler) ==
  [n \in DOMAIN reg \cup {name} |-> IF n = name THEN handler ELSE reg[n]]

\* The registry after the first n calls of _register_methods.
RECURSIVE RegisterMethods(_, _)
RegisterMethods(reg, n) ==
  IF n = 0 THEN reg
  ELSE RegistryWith(RegisterMethods(reg, n - 1),
                    StartupRegistrations[n][1], StartupRegistrations[n][2])

Named(k, v) == [name \in {k} |-> v]

\* The requests the model sends to the started service.
ServiceUnits ==
  { Object(StrMethod("ping"), AbsentParams, IntId(1)),
    Object(StrMethod("capabilities"), AbsentParams, IntId(1)),
    Object(StrMethod("status"), AbsentParams, IntId(1)),
    Object(StrMethod("echo"), DictParams(Msg(<<"a">>)), IntId(1)),
    Object(StrMethod("ai.chat"), DictParams(Msg(<<"a">>)), IntId(1)),
    Object(StrMethod("ai.chat"), DictParams(Msg(<<>>)), IntId(1)),
    Object(StrMethod("ai.complete"), DictParams(Named("prompt", <<"a">>)), IntId(1)),
    Object(StrMethod("ai.complete"), DictParams(Named("prompt", <<>>)), IntId(1)),
    Object(StrMethod("ai.review_code"), DictParams(Named("code", <<"x">>)), IntId(1)),
    Object(StrMethod("ai.review_code"), DictParams(Named("code", <<>>)), IntId(1)),
    Object(StrMethod("ai.explain_code"), DictParams(Named("code", <<"x">>)), IntId(1)),
    Object(StrMethod("ai.explain_code"), DictParams(Named("code", <<>>)), IntId(1)),
    Object(StrMethod("task.create"),
           DictParams([method |-> <<"ai.chat">>, params |-> ChatParamsValue]), IntId(1)),
    Object(StrMethod("task.create"),
           DictParams([method |-> <<"ai.chat">>, params |-> EmptyMessageValue]), IntId(1)),
    Object(StrMethod("task.create"),
           DictParams([method |-> <<"ping">>, params |-> EmptyDict]), IntId(1)),
    Object(StrMethod("task.status"), DictParams(Named("task_id", <<"t">>)), IntId(1)),
    Object(StrMethod("task.cancel"), DictParams(Named("task_id", <<"t">>)), IntId(1)),
    Object(StrMethod("nope"), AbsentParams, IntId(1)) }

\* The units of the arrays sent to the started service.
ServiceBatchUnits ==
  { Object(StrMethod("capabilities"), AbsentParams, IntId(1)),
    Object(StrMethod("ai.complete"), DictParams(Named("prompt", <<"a">>)), IntId(1)),
    Object(StrMethod("task.create"),
           DictParams([method |-> <<"ping">>, params |-> EmptyDict]), IntId(1)) }

ServicePayloads ==
  {Decoded(u.json, u, <<>>) : u \in ServiceUnits}
  \cup {Decoded("array", EmptyObject, s) : s \in SeqsUpTo(ServiceBatchUnits, MaxBatch)}

\* (mutation) every call constructs a new A2AService.
get_a2a_service_AlwaysNew ==
  /\ pc = "idle"
  /\ svc.gets < MaxGets
  /\ IF ~svc.api_key
       THEN /\ svc' = [svc EXCEPT !.got = 0 - 1, !.gets = @ + 1]
            /\ UNCHANGED methods
       ELSE /\ svc' = [svc EXCEPT !.a2a_service = @ + 1, !.got = svc.a2a_service + 1,
                                  !.gets = @ + 1]
            /\ methods' = RegisterMethods(methods, Len(StartupRegistrations))
  /\ UNCHANGED <<inflight, llm_up, pc, body, idx, results, response, invoked, http_status>>

\* get_a2a_service(): the first call constructs the A2AService, whose
\* __init__ gets the LLM service (which raises when no API key is set) and
\* then registers the methods; every later call gives the instance kept in
\* the module global.
get_a2a_service ==
  /\ pc = "idle"
  /\ svc.gets < MaxGets
  /\ IF svc.a2a_service # 0
       THEN /\ svc' = [svc EXCEPT !.got = svc.a2a_service, !.gets = @ + 1]
            /\ UNCHANGED methods
     ELSE IF ~svc.api_key
       THEN /\ svc' = [svc EXCEPT !.got = 0 - 1, !.gets = @ + 1]
            /\ UNCHANGED methods
     ELSE /\ svc' = [svc EXCEPT !.a2a_service = 1, !.got = 1, !.gets = @ + 1]
          /\ methods' = RegisterMethods(methods, Len(StartupRegistrations))
  /\ UNCHANGED <<inflight, llm_up, pc, body, idx, results, response, invoked, http_status>>

\* A request reaches the application, which main.py creates only after
\* get_a2a_service() has returned.
serve(payload) ==
  /\ svc.a2a_service # 0
  /\ handle_request(payload)

InitService ==
  /\ methods = [n \in {} |-> ""]
  /\ llm_up \in BOOLEAN
  /\ pc = "idle"
  /\ body = NoBody
  /\ idx = 1
  /\ results = <<>>
  /\ response = NoResponse
  /\ invoked = <<>>
  /\ http_status = 0
  /\ svc \in {NoService(k) : k \in BOOLEAN}
  /\ inflight = NoCalls

NextService ==
  \/ get_a2a_service
  \/ backend_change
  \/ \E payload \in ServicePayloads : serve(payload)
  \/ process_single
  \/ process_item
  \/ batch_return
  \/ a2a_endpoint_return
  \/ call_done

SpecService == InitService /\ [][NextService]_vars

(***************************************************************************)
(* Concurrent calls of handle_request on one event loop.  Every call keeps  *)
(* its body, loop position, results and response in locals of its own       *)
(* coroutine; the calls share the handler object, whose only attribute is   *)
(* the registry.  A call can be suspended at each await, so that steps of   *)
(* different calls interleave between units.                                *)
(***************************************************************************)

\* The callers whose calls are in progress at the same time.
Callers == {"c1", "c2"}

\* The requests the concurrent callers send.
ConcurrentUnits ==
  { Object(StrMethod("ping"), AbsentParams, IntId(1)),
    Object(StrMethod("echo"), DictParams(Msg(<<"a">>)), StrId(1)),
    Object(StrMethod("nope"), AbsentParams, IntId(1)) }

ConcurrentPayloads ==
  {Decoded("undecodable", EmptyObject, <<>>), Decoded("null", EmptyObject, <<>>)}
  \cup {Decoded(u.json, u, <<>>) : u \in ConcurrentUnits}
  \cup {Decoded("array", EmptyObject, s) : s \in SeqsUpTo(ConcurrentUnits, MaxBatch)}

\* The locals of a caller that has no call in progress.
IdleCall ==
  [pc |-> "idle", body |-> NoBody, idx |-> 1, results |-> <<>>, response |-> NoResponse,
   invoked |-> <<>>]

\* handle_request up to the dispatch on the shape of the body, for caller c.
co_handle_request(c, payload) ==
  /\ inflight[c].pc = "idle"
  /\ inflight' =
       [inflight EXCEPT ![c] =
          [pc |-> IF payload.json = "undecodable" \/ ~Truthy(payload) THEN "returned"
                  ELSE IF payload.json = "array" THEN "batch" ELSE "single",
           body |-> payload, idx |-> 1, results |-> <<>>,
           response |-> IF payload.json = "undecodable" THEN Single(InvalidJson)
                        ELSE IF ~Truthy(payload) THEN Single(ProcessingError)
                        ELSE NoResponse,
           invoked |-> <<>>]]
  /\ UNCHANGED <<methods, llm_up, pc, body, idx, results, response, invoked, http_status, svc>>

\* `return await self._process_single_request(body, request)` of caller c.
co_process_single(c) ==
  /\ inflight[c].pc = "single"
  /\ LET r == ProcessSingleRequest(inflight[c].body.unit, methods, llm_up)
     IN inflight' = [inflight EXCEPT ![c].response = Single(r.response),
                                     ![c].invoked = @ \o Logged(r.calls, 1),
                                     ![c].pc = "returned"]
  /\ UNCHANGED <<methods, llm_up, pc, body, idx, results, response, invoked, http_status, svc>>

\* (mutation) the results list is an attribute of the handler object, which
\* all calls in progress append to.
co_process_item_SharedResults(c) ==
  /\ inflight[c].pc = "batch"
  /\ inflight[c].idx <= Len(inflight[c].body.items)
  /\ LET r == ProcessSingleRequest(ItemAt(inflight[c].body.items, inflight[c].idx),
                                   methods, llm_up)
     IN inflight' =
          [d \in Callers |->
             IF d = c
               THEN [inflight[c] EXCEPT !.results = AppendResult(@, r.response),
                                        !.invoked = @ \o Logged(r.calls, inflight[c].idx),
                                        !.idx = @ + 1]
             ELSE IF inflight[d].pc = "batch"
               THEN [inflight[d] EXCEPT !.results = AppendResult(@, r.response)]
             ELSE inflight[d]]
  /\ UNCHANGED <<methods, llm_up, pc, body, idx, results, response, invoked, http_status, svc>>

\* One iteration of `for item in body` of caller c.
co_process_item(c) ==
  /\ inflight[c].pc = "batch"
  /\ inflight[c].idx <= Len(inflight[c].body.items)
  /\ LET r == ProcessSingleRequest(ItemAt(inflight[c].body.items, inflight[c].idx),
                                   methods, llm_up)
     IN inflight' = [inflight EXCEPT ![c].results = AppendResult(@, r.response),
                                     ![c].invoked = @ \o Logged(r.calls, inflight[c].idx),
                                     ![c].idx = @ + 1]
  /\ UNCHANGED <<methods, llm_up, pc, body, idx, results, response, invoked, http_status, svc>>

\* The return after the loop of caller c.
co_batch_return(c) ==
  /\ inflight[c].pc = "batch"
  /\ inflight[c].idx > Len(inflight[c].body.items)
  /\ inflight' = [inflight EXCEPT ![c].response = BatchResult(inflight[c].results),
                                  ![c].pc = "returned"]
  /\ UNCHANGED <<methods, llm_up, pc, body, idx, results, response, invoked, http_status, svc>>

\* The response of caller c has been sent; the locals of the call are gone.
co_done(c) ==
  /\ inflight[c].pc = "returned"
  /\ inflight' = [inflight EXCEPT ![c] = IdleCall]
  /\ UNCHANGED <<methods, llm_up, pc, body, idx, results, response, invoked, http_status, svc>>

\* The started service with no call in progress.
InitConcurrent ==
  /\ methods = RegisterMethods([n \in {} |-> ""], Len(StartupRegistrations))
  /\ llm_up \in BOOLEAN
  /\ pc = "idle"
  /\ body = NoBody
  /\ idx = 1
  /\ results = <<>>
  /\ response = NoResponse
  /\ invoked = <<>>
  /\ http_status = 0
  /\ svc = [api_key |-> TRUE, a2a_service |-> 1, got |-> 1, gets |-> 1]
  /\ inflight = [c \in Callers |-> IdleCall]

NextConcurrent ==
  \E c \in Callers :
    \/ \E payload \in ConcurrentPayloads : co_handle_request(c, payload)
    \/ co_process_single(c)
    \/ co_process_item(c)
    \/ co_batch_return(c)
    \/ co_done(c)

SpecConcurrent == InitConcurrent /\ [][NextConcurrent]_vars

TypeOK ==
  /\ DOMAIN methods \subseteq RegNames \cup {StartupRegistrations[k][1] : k \in 1..Len(StartupRegistrations)}
  /\ svc.gets \in 0..MaxGets
  /\ pc \in {"idle", "single", "batch", "returned", "sent", "n_single", "n_batch", "n_returned"}
  /\ http_status \in {0, 200}
  /\ body \in Payloads \cup NotificationPayloads
  /\ idx \in 1..(MaxBatch + 1)
  /\ response.shape \in {"none", "single", "array"}
  /\ pc \in {"n_single", "n_batch", "n_returned"} => body \in NotificationPayloads

(***************************************************************************)
(* Properties of the request path                                          *)
(***************************************************************************)

Returned == pc = "returned"

\* The payload was one unit handed to the dispatcher.
SinglePayload == body.json \in {"object", "number"} /\ Truthy(body)

\* The payload was a non-empty array.
BatchPayload == body.json = "array" /\ Truthy(body)

HasId(u) == u.json = "object" /\ u.id.t # "absent"

WellFormed(u) == A2ARequest(u).ok

UnitCount == IF BatchPayload THEN Len(body.items) ELSE IF SinglePayload THEN 1 ELSE 0

UnitAt(i) == IF body.json = "array" THEN body.items[i] ELSE body.unit

\* Whether the caller received an envelope for unit i, and which one.
HasEnvelopeAt(i) ==
  \/ response.shape = "single" /\ i = 1
  \/ response.shape = "array" /\ i <= Len(response.items)

EnvelopeAt(i) == IF response.shape = "array" THEN response.items[i] ELSE response.env

CallsOf(i) == SelectSeq(invoked, LAMBDA e : e.unit = i)

Tokens(text) == {text[k] : k \in 1..Len(text)}

\* What handle_request answers when the unit is the whole payload.
DispatchedAlone(u) ==
  IF ~Truthy(Decoded(u.json, u, <<>>)) THEN [response |-> ProcessingError, calls |-> <<>>]
  ELSE ProcessSingleRequest(u, methods, llm_up)

\* C1: a single-object payload with an id x whose registered handler returns
\* r is answered {success: true, data: {jsonrpc: "2.0", id: x, result: r}}.
C1_SuccessEnvelopeCarriesId ==
  (/\ Returned /\ SinglePayload /\ HasId(body.unit)
   /\ Len(invoked) = 1 /\ invoked[1].call.outcome.kind = "return")
  => response = Single([success |-> TRUE,
                        data |-> [jsonrpc |-> "2.0", id |-> body.unit.id,
                                  result |-> invoked[1].call.outcome.value]])

C1_Witness ==
  /\ Returned /\ SinglePayload /\ body.unit.id = IntId(2)
  /\ Len(invoked) = 1 /\ invoked[1].call.outcome.kind = "return"
  /\ response.shape = "single" /\ response.env.success

\* The responses of the units of a batch that carry an id, in input order.
RequestUnits == SelectSeq(body.items, HasId)

\* C2 (as claimed): a batch mixing requests and notifications is answered with
\* the responses of its request units only, in order, unwrapped when there is
\* exactly one.
C2_NotificationsContributeNothing ==
  (/\ Returned /\ BatchPayload
   /\ \A i \in 1..Len(body.items) : WellFormed(body.items[i])
   /\ \E i \in 1..Len(body.items) : HasId(body.items[i])
   /\ \E i \in 1..Len(body.items) : ~HasId(body.items[i]))
  => response = BatchResult([k \in 1..Len(RequestUnits) |->
                               ProcessSingleRequest(RequestUnits[k], methods, llm_up).response])

\* C3: a batch of N units with ids is answered with the one response itself
\* when N = 1, and with an array of N responses, the i-th being the outcome
\* of the i-th unit, when N > 1.
C3_BatchShape ==
  (/\ Returned /\ BatchPayload
   /\ \A i \in 1..Len(body.items) : HasId(body.items[i]))
  => IF Len(body.items) = 1
       THEN response = Single(ProcessSingleRequest(body.items[1], methods, llm_up).response)
       ELSE /\ response.shape = "array"
            /\ Len(response.items) = Len(body.items)
            /\ \A i \in 1..Len(body.items) :
                 response.items[i] = ProcessSingleRequest(body.items[i], methods, llm_up).response

C3_Witness ==
  /\ Returned /\ BatchPayload /\ Len(body.items) = 2
  /\ \A i \in 1..Len(body.items) : HasId(body.items[i])
  /\ response.shape = "array" /\ Len(response.items) = 2
  /\ response.items[1].success /\ ~response.items[2].success

\* C4 (as claimed): a malformed unit, alone or in a batch, is answered with
\* an error envelope of kind bad_request.
C4_MalformedUnitIsBadRequest ==
  Returned =>
    \A i \in 1..UnitCount :
      ~WellFormed(UnitAt(i)) =>
        /\ HasEnvelopeAt(i)
        /\ ~EnvelopeAt(i).success
        /\ Kind(EnvelopeAt(i)) = BAD_REQUEST

\* C5 (as claimed): an empty body (null, {} or []) is answered with an error
\* envelope of kind bad_request and no handler is invoked.
C5_EmptyBodyIsBadRequest ==
  (Returned /\ body.json # "undecodable" /\ ~Truthy(body))
  => /\ response.shape = "single"
     /\ ~response.env.success
     /\ Kind(response.env) = BAD_REQUEST
     /\ invoked = <<>>

\* C6: a well-formed request naming an unregistered method is answered with
\* an error envelope of kind not_found whose message is "Method '<name>' not
\* found" for that name, and no handler is invoked for it.
C6_UnknownMethodNotFound ==
  Returned =>
    \A i \in 1..UnitCount :
      (WellFormed(UnitAt(i)) /\ UnitAt(i).method.v \notin DOMAIN methods) =>
        /\ HasEnvelopeAt(i)
        /\ ~EnvelopeAt(i).success
        /\ Kind(EnvelopeAt(i)) = NOT_FOUND
        /\ Message(EnvelopeAt(i)) = <<"Method '", UnitAt(i).method.v, "' not found">>
        /\ CallsOf(i) = <<>>

C6_Witness ==
  /\ Returned /\ SinglePayload /\ WellFormed(body.unit)
  /\ body.unit.method.v = "echo" /\ "echo" \notin DOMAIN methods /\ "ping" \in DOMAIN methods
  /\ response.shape = "single" /\ ~response.env.success
  /\ Kind(response.env) = NOT_FOUND

\* C7 (as claimed): when the handler raises A2AError(c, msg) the envelope has
\* kind bad_request and its message equals msg.
C7_ProtocolErrorMessageIsMsg ==
  Returned =>
    \A k \in 1..Len(invoked) :
      invoked[k].call.outcome.kind = "A2AError" =>
        /\ HasEnvelopeAt(invoked[k].unit)
        /\ ~EnvelopeAt(invoked[k].unit).success
        /\ Kind(EnvelopeAt(invoked[k].unit)) = BAD_REQUEST
        /\ Message(EnvelopeAt(invoked[k].unit)) = invoked[k].call.outcome.message

\* C7 (amended): when the handler raises A2AError(c, msg) the envelope has
\* kind bad_request and its message is "[c] msg": the code in brackets, a
\* space, then msg.
C7_ProtocolErrorMessageIsStr ==
  Returned =>
    \A k \in 1..Len(invoked) :
      invoked[k].call.outcome.kind = "A2AError" =>
        /\ HasEnvelopeAt(invoked[k].unit)
        /\ ~EnvelopeAt(invoked[k].unit).success
        /\ Kind(EnvelopeAt(invoked[k].unit)) = BAD_REQUEST
        /\ Message(EnvelopeAt(invoked[k].unit)) =
             <<"[">> \o FormatInt(invoked[k].call.outcome.code) \o <<"] ">>
               \o invoked[k].call.outcome.message

C7_Witness ==
  /\ Returned /\ SinglePayload /\ Len(invoked) = 1
  /\ invoked[1].call.outcome.kind = "A2AError"
  /\ invoked[1].call.outcome.code = 0 - 32603
  /\ response.shape = "single"
  /\ Message(response.env)[2] = "-" /\ Message(response.env)[7] = "3"

\* C8: when the handler call fails with anything but a protocol error (a
\* wrong-arity call included) the envelope has kind internal_error, its
\* message is "Error executing <method>", and no text of the failure is in it.
C8_UnexpectedFailureIsGeneric ==
  Returned =>
    \A k \in 1..Len(invoked) :
      invoked[k].call.outcome.kind = "Exception" =>
        /\ HasEnvelopeAt(invoked[k].unit)
        /\ ~EnvelopeAt(invoked[k].unit).success
        /\ Kind(EnvelopeAt(invoked[k].unit)) = INTERNAL_ERROR
        /\ Message(EnvelopeAt(invoked[k].unit))
             = <<"Error executing ", UnitAt(invoked[k].unit).method.v>>
        /\ Tokens(invoked[k].call.outcome.message)
             \cap Tokens(Message(EnvelopeAt(invoked[k].unit))) = {}

C8_Witness ==
  /\ Returned /\ SinglePayload /\ Len(invoked) = 1
  /\ invoked[1].call.outcome.kind = "Exception"
  /\ invoked[1].call.entered
  /\ invoked[1].call.handler = "echo"
  /\ Kind(response.env) = INTERNAL_ERROR

\* C9 (as claimed): a single-object payload without an id has its handler
\* invoked and yields no response value.
C9_NoResponseWithoutId ==
  (/\ Returned /\ SinglePayload /\ WellFormed(body.unit) /\ ~HasId(body.unit)
   /\ body.unit.method.v \in DOMAIN methods)
  => (Len(invoked) = 1 /\ response = NoResponse)

\* C10: in a batch with a failing element, every element is still dispatched:
\* the caller gets one response per element, each equal to the response the
\* element gets as the whole payload, and each element makes the handler
\* calls it makes alone.
C10_SiblingsUnaffected ==
  (/\ Returned /\ BatchPayload /\ Len(body.items) >= 2
   /\ \E j \in 1..Len(body.items) : ~DispatchedAlone(body.items[j]).response.success)
  => /\ response.shape = "array"
     /\ Len(response.items) = Len(body.items)
     /\ \A i \in 1..Len(body.items) :
          /\ response.items[i] = DispatchedAlone(body.items[i]).response
          /\ CallsOf(i) = Logged(DispatchedAlone(body.items[i]).calls, i)

C10_Witness ==
  /\ Returned /\ BatchPayload /\ Len(body.items) = 2
  /\ ~WellFormed(body.items[1])
  /\ response.shape = "array" /\ Len(response.items) = 2
  /\ ~response.items[1].success /\ response.items[2].success
  /\ Len(CallsOf(2)) = 1

\* The envelopes the caller received.
Envelopes ==
  IF response.shape = "single" THEN {response.env}
  ELSE IF response.shape = "array" THEN {response.items[k] : k \in 1..Len(response.items)}
  ELSE {}

\* A success envelope {success, data: {jsonrpc, id, result}} or an error
\* envelope {success, error: {success, error: {type, message, suggestion}, meta}}.
WellFormedEnvelope(env) ==
  \/ /\ DOMAIN env = {"success", "data"}
     /\ env.success
     /\ DOMAIN env.data = {"jsonrpc", "id", "result"}
     /\ env.data.jsonrpc = "2.0"
  \/ /\ DOMAIN env = {"success", "error"}
     /\ ~env.success
     /\ DOMAIN env.error = {"success", "error", "meta"}
     /\ DOMAIN env.error.error = {"type", "message", "suggestion"}
     /\ env.error.error.type \in ErrorTypes
     /\ Len(env.error.error.message) > 0

\* C11: whatever the payload and whatever the handlers do, handle_request
\* returns one well-formed envelope or an array of them, nothing else leaves
\* it, and a unit whose parsing fails in the dispatcher gets an internal_error
\* envelope.
C11_AlwaysWellFormed ==
  Returned =>
    /\ response.shape \in {"single", "array"}
    /\ \A env \in Envelopes : WellFormedEnvelope(env)
    /\ \A i \in 1..UnitCount :
         ~WellFormed(UnitAt(i)) =>
           (HasEnvelopeAt(i) /\ ~EnvelopeAt(i).success
            /\ Kind(EnvelopeAt(i)) = INTERNAL_ERROR)

C11_Witness ==
  /\ Returned /\ BatchPayload /\ Len(body.items) = 2
  /\ body.items[1] = Number
  /\ Len(invoked) = 1 /\ invoked[1].call.outcome.kind = "Exception"
  /\ response.shape = "array" /\ Len(response.items) = 2
  /\ Kind(response.items[1]) = INTERNAL_ERROR
  /\ Kind(response.items[2]) = INTERNAL_ERROR

\* C12 (as claimed): a body that is not valid JSON is answered at POST /a2a
\* with a bad_request envelope and a 400-class status.
C12_InvalidJsonIs400 ==
  (pc = "sent" /\ body.json = "undecodable")
  => /\ response.shape = "single"
     /\ ~response.env.success
     /\ Kind(response.env) = BAD_REQUEST
     /\ http_status \in 400..499

\* C14: every error envelope handle_request returns carries a non-empty
\* suggestion.
C14_SuggestionOnEveryError ==
  Returned =>
    \A env \in Envelopes :
      ~env.success =>
        /\ "suggestion" \in DOMAIN env.error.error
        /\ Len(Suggestion(env)) > 0
        /\ "" \notin Tokens(Suggestion(env))

C14_Witness ==
  /\ Returned /\ BatchPayload /\ Len(body.items) = 2
  /\ response.shape = "array" /\ Len(response.items) = 2
  /\ ~response.items[1].success /\ Kind(response.items[1]) = BAD_REQUEST
  /\ ~response.items[2].success /\ Kind(response.items[2]) = NOT_FOUND
  /\ Len(Suggestion(response.items[1])) > 0
  /\ Suggestion(response.items[1]) # Suggestion(response.items[2])

\* The names a caller may ask for.
MethodNames == RegNames \cup {"nope"}

\* C15: register_method(name, handler) leaves name resolving to handler,
\* whether or not name was registered before, and leaves every other name as
\* it was: absent if absent, the same handler if present; and it can always
\* be called between requests, registered name or not, with that outcome.
C15_LastWriterWins ==
  /\ [](pc = "idle" =>
         \A reg \in Registrations :
           ENABLED (register_method(reg[1], reg[2]) /\ methods'[reg[1]] = reg[2]))
  /\ [][\A reg \in Registrations :
          register_method(reg[1], reg[2]) =>
            /\ reg[1] \in DOMAIN methods'
            /\ methods'[reg[1]] = reg[2]
            /\ \A n \in MethodNames \ {reg[1]} :
                 /\ (n \in DOMAIN methods') = (n \in DOMAIN methods)
                 /\ n \in DOMAIN methods => methods'[n] = methods[n]]_vars

C15_Witness ==
  /\ pc = "idle"
  /\ DOMAIN methods = {"ping", "echo"}
  /\ methods["echo"] = "ai_chat"
  /\ methods["ping"] = "ping"

\* An echo request as the spec writes it: {method: "echo", params: {message: s}, id: x}.
IsEchoRequest(u) ==
  /\ WellFormed(u) /\ HasId(u)
  /\ u.method.v = "echo"
  /\ u.params.t = "dict"
  /\ DOMAIN u.params.kw = {"message"}
  /\ IsStr(u.params.kw["message"])

\* C17: with "echo" registered to the echo handler, every echo request with a
\* string message s and id x is answered with the success envelope whose
\* result is {echo: s, length: len(s)} and whose id is x; a batch of two of
\* them is answered with the array of the two, in order.
C17_EchoResult ==
  (Returned /\ "echo" \in DOMAIN methods /\ methods["echo"] = "echo")
  => /\ \A i \in 1..UnitCount :
          IsEchoRequest(UnitAt(i)) =>
            /\ HasEnvelopeAt(i)
            /\ EnvelopeAt(i) =
                 [success |-> TRUE,
                  data |-> [jsonrpc |-> "2.0", id |-> UnitAt(i).id,
                            result |-> [echo |-> UnitAt(i).params.kw["message"],
                                        length |-> Len(UnitAt(i).params.kw["message"])]]]
     /\ (BatchPayload /\ Len(body.items) = 2
         /\ IsEchoRequest(body.items[1]) /\ IsEchoRequest(body.items[2]))
        => (response.shape = "array" /\ Len(response.items) = 2)

C17_Witness ==
  /\ Returned /\ BatchPayload /\ Len(body.items) = 2
  /\ IsEchoRequest(body.items[1]) /\ IsEchoRequest(body.items[2])
  /\ response.shape = "array" /\ Len(response.items) = 2
  /\ response.items[1].success /\ response.items[2].success
  /\ response.items[1].data.result = [echo |-> <<"a">>, length |-> 1]
  /\ response.items[2].data.result = [echo |-> <<"b", "b">>, length |-> 2]

\* C18: when params is a mapping and the handler has a context parameter,
\* the handler is called with the caller's named arguments and a context
\* entry holding the call context, which replaces a context key of the caller.
C18_ContextOverwritesCallerKey ==
  \A k \in 1..Len(invoked) :
    (/\ UnitAt(invoked[k].unit).params.t = "dict"
     /\ "context" \in Annotations(invoked[k].call.handler))
    => /\ invoked[k].call.args.style = "kw"
       /\ DOMAIN invoked[k].call.args.kw
            = DOMAIN UnitAt(invoked[k].unit).params.kw \cup {"context"}
       /\ invoked[k].call.args.kw["context"] = CallContext
       /\ \A key \in DOMAIN UnitAt(invoked[k].unit).params.kw \ {"context"} :
            invoked[k].call.args.kw[key] = UnitAt(invoked[k].unit).params.kw[key]

C18_Witness ==
  /\ Returned /\ SinglePayload /\ body.unit.params.t = "dict"
  /\ "context" \in DOMAIN body.unit.params.kw
  /\ body.unit.params.kw["context"] = CallerContext
  /\ Len(invoked) = 1 /\ invoked[1].call.handler = "ai_chat"
  /\ invoked[1].call.entered
  /\ invoked[1].call.args.kw["context"] = CallContext

\* C19: when params is a non-empty list, the handler is called with those
\* values positionally, in order, followed by the call context when the
\* handler has a context parameter and by nothing otherwise.
C19_PositionalThenContext ==
  \A k \in 1..Len(invoked) :
    (/\ UnitAt(invoked[k].unit).params.t = "list"
     /\ Len(UnitAt(invoked[k].unit).params.pos) > 0)
    => /\ invoked[k].call.args.style = "pos"
       /\ \A j \in 1..Len(UnitAt(invoked[k].unit).params.pos) :
            /\ j <= Len(invoked[k].call.args.pos)
            /\ invoked[k].call.args.pos[j] = UnitAt(invoked[k].unit).params.pos[j]
       /\ IF "context" \in Annotations(invoked[k].call.handler)
            THEN /\ Len(invoked[k].call.args.pos)
                      = Len(UnitAt(invoked[k].unit).params.pos) + 1
                 /\ invoked[k].call.args.pos[Len(invoked[k].call.args.pos)] = CallContext
            ELSE Len(invoked[k].call.args.pos) = Len(UnitAt(invoked[k].unit).params.pos)

C19_Witness ==
  /\ Returned /\ SinglePayload /\ body.unit.params.t = "list"
  /\ Len(invoked) = 1 /\ invoked[1].call.handler = "ai_chat"
  /\ invoked[1].call.args.pos = <<(<<"b", "b">>), CallContext>>
  /\ invoked[1].call.entered

\* C20: when params is absent (JSON null parses to the same None), a handler
\* without a context parameter is called with no arguments and one with a
\* context parameter with the single named argument context.
C20_AbsentParamsIsEmptyMapping ==
  \A k \in 1..Len(invoked) :
    UnitAt(invoked[k].unit).params.t = "absent"
    => /\ invoked[k].call.args.style = "kw"
       /\ invoked[k].call.args.pos = <<>>
       /\ IF "context" \in Annotations(invoked[k].call.handler)
            THEN /\ DOMAIN invoked[k].call.args.kw = {"context"}
                 /\ invoked[k].call.args.kw["context"] = CallContext
            ELSE DOMAIN invoked[k].call.args.kw = {}

C20_Witness ==
  /\ Returned /\ SinglePayload /\ body.unit.params.t = "absent"
  /\ Len(invoked) = 1 /\ invoked[1].call.handler = "ai_chat"
  /\ DOMAIN invoked[1].call.args.kw = {"context"}
  /\ ~invoked[1].call.entered

(***************************************************************************)
(* Notification mode and the order of a batch                              *)
(***************************************************************************)

NotificationMode == pc \in {"n_single", "n_batch", "n_returned"}

\* The handler calls unit u makes when it is processed on its own, in the
\* mode of the call in progress.
CallsAlone(u) ==
  IF NotificationMode THEN ProcessSingleNotification(u, methods, llm_up).calls
  ELSE ProcessSingleRequest(u, methods, llm_up).calls

\* The calls of the first n units of the array, unit after unit.
RECURSIVE CallsInOrder(_)
CallsInOrder(n) ==
  IF n = 0 THEN <<>>
  ELSE CallsInOrder(n - 1) \o Logged(CallsAlone(body.items[n]), n)

\* C13: handle_notification gives nothing back for every payload (undecodable,
\* empty, single, array), no exception reaches its caller, and an empty or
\* undecodable payload invokes no handler.
C13_NotificationReturnsNothing ==
  pc = "n_returned" =>
    /\ response = NoResponse
    /\ results = <<>>
    /\ ~Truthy(body) => invoked = <<>>

C13_Witness ==
  /\ pc = "n_returned" /\ body.json = "array" /\ Len(body.items) = 2
  /\ body.items[1].json = "number"
  /\ Len(invoked) = 1 /\ invoked[1].unit = 2
  /\ invoked[1].call.outcome.kind = "Exception"
  /\ response = NoResponse

\* C16: in a batch, in request mode and in notification mode, the handler
\* calls made so far are exactly those of the units already taken from the
\* array, in the order of the array and each call complete; the call returns
\* only after the last unit.
C16_BatchInInputOrder ==
  body.json = "array" /\ pc \in {"batch", "returned", "sent", "n_batch", "n_returned"}
  => /\ invoked = CallsInOrder(idx - 1)
     /\ pc \notin {"batch", "n_batch"} /\ Truthy(body) => idx = Len(body.items) + 1

C16_Witness ==
  /\ pc \in {"returned", "n_returned"} /\ body.json = "array" /\ Len(body.items) = 2
  /\ body.items[1] # body.items[2]
  /\ Len(invoked) = 2 /\ invoked[1].unit = 1 /\ invoked[2].unit = 2
  /\ invoked[1].call.handler # invoked[2].call.handler

\* The notification units of the payload that parse and name a registered
\* method.
Dispatchable(u) == A2ANotification(u).ok /\ A2ANotification(u).method \in DOMAIN methods

\* C21: when handle_notification has gone through an array, every element
\* that parses as a notification and names a registered method has had that
\* method's handler called exactly once, every other element has had none,
\* the calls are in the order of the array, whatever the elements before
\* them were (malformed, unknown method, failing handler), and nothing is
\* given back.
C21_NotificationBatchInvokesAll ==
  pc = "n_returned" /\ BatchPayload
  => /\ \A i \in 1..Len(body.items) :
          IF Dispatchable(body.items[i])
            THEN /\ Len(CallsOf(i)) = 1
                 /\ CallsOf(i)[1].call.handler = methods[body.items[i].method.v]
            ELSE CallsOf(i) = <<>>
     /\ \A j, k \in 1..Len(invoked) : j < k => invoked[j].unit < invoked[k].unit
     /\ response = NoResponse

C21_Witness ==
  /\ pc = "n_returned" /\ BatchPayload /\ Len(body.items) = 2
  /\ body.items[1].method = StrMethod("ai.chat") /\ Dispatchable(body.items[1])
  /\ body.items[2].method = StrMethod("ping") /\ Dispatchable(body.items[2])
  /\ Len(invoked) = 2
  /\ invoked[1].call.outcome.kind # "return"
  /\ invoked[2].unit = 2 /\ invoked[2].call.outcome.kind = "return"

\* C22 (as claimed): a unit whose method is missing or is the empty string
\* is rejected when it is parsed: it is answered with the envelope of a unit
\* that could not be processed, and every unit that does parse has a
\* non-empty method.
C22_MethodIsNonEmpty ==
  Returned =>
    \A i \in 1..UnitCount :
      /\ WellFormed(UnitAt(i)) => A2ARequest(UnitAt(i)).method # ""
      /\ (UnitAt(i).json = "object" /\ UnitAt(i).method \in {AbsentMethod, StrMethod("")})
           => /\ HasEnvelopeAt(i)
              /\ EnvelopeAt(i) = ProcessingError

\* C23: the only steps that change the registry are those of register_method:
\* every step of handle_request and of handle_notification, whatever the
\* payload and the outcome, leaves the name-to-handler mapping as it was.
C23_DispatchLeavesRegistry ==
  [][(\E reg \in Registrations : register_method(reg[1], reg[2])) \/ methods' = methods]_vars

C23_Witness ==
  /\ Returned /\ BatchPayload /\ Len(body.items) = 2
  /\ DOMAIN methods = RegNames
  /\ Len(invoked) = 2
  /\ ~response.items[1].success /\ response.items[2].success

\* An ai.chat request with named params that the registry resolves to
\* A2AService.ai_chat.
IsChatRequest(u) ==
  /\ WellFormed(u) /\ u.method = StrMethod("ai.chat") /\ u.params.t = "dict"
  /\ "message" \in DOMAIN u.params.kw
  /\ "ai.chat" \in DOMAIN methods /\ methods["ai.chat"] = "ai_chat"

\* C25 (as claimed): the result of a successful ai.chat request carries, in
\* its context field, the context mapping the caller sent, and the empty
\* mapping when the caller sent none.
C25_ChatContextIsCallers ==
  (Returned /\ SinglePayload /\ IsChatRequest(body.unit) /\ response.env.success)
  => response.env.data.result.context =
       IF "context" \in DOMAIN body.unit.params.kw THEN body.unit.params.kw["context"]
       ELSE EmptyDict

(***************************************************************************)
(* Properties of the started service                                       *)
(***************************************************************************)

\* C30: once get_a2a_service has constructed the service, the names in the
\* registry are exactly those of the methods list that get_capabilities
\* reports, the registry is the one _register_methods built, and every call
\* of get_a2a_service gives that one instance.
C30_RegistryMatchesCapabilities ==
  svc.a2a_service # 0
  => /\ DOMAIN methods =
          {get_capabilities.value.methods[k] : k \in 1..Len(get_capabilities.value.methods)}
     /\ methods = RegisterMethods([n \in {} |-> ""], Len(StartupRegistrations))
     /\ svc.a2a_service = 1
     /\ svc.got = svc.a2a_service

C30_Witness ==
  /\ svc.gets = 2 /\ svc.got = 1
  /\ Returned /\ SinglePayload /\ body.unit.method = StrMethod("capabilities")
  /\ response.env.success
  /\ response.env.data.result.methods = CapabilitiesMethods

\* The handlers that ask the LLM backend.
AIHandlers == {"ai_chat", "ai_complete", "ai_review_code", "ai_explain_code"}

\* C26 (as claimed): when the backend fails during a call of one of the AI
\* methods, made with a non-empty text, the caller gets an error envelope of
\* kind internal_error whose message holds none of the text of the failure.
C26_BackendFailureIsInternalError ==
  (/\ Returned /\ SinglePayload /\ ~llm_up
   /\ Len(invoked) = 1 /\ invoked[1].call.handler \in AIHandlers /\ invoked[1].call.entered
   /\ ~Falsy(Arg(invoked[1].call.handler, invoked[1].call.args, 1)))
  => /\ ~response.env.success
     /\ Kind(response.env) = INTERNAL_ERROR
     /\ Tokens(Message(response.env)) \cap Tokens(BackendFailure) = {}

\* C27 (as claimed): a call of an AI handler with an empty required argument
\* ends with an A2AError of code -32602, and a call of create_task with a
\* method it does not run ends with an A2AError of code -32601.
C27_ProtocolErrorKeepsCode ==
  \A k \in 1..Len(invoked) :
    LET c == invoked[k].call
    IN /\ (c.entered /\ c.handler \in AIHandlers /\ Arg(c.handler, c.args, 1) = <<>>)
            => c.outcome.kind = "A2AError" /\ c.outcome.code = INVALID_PARAMS
       /\ (c.entered /\ c.handler = "create_task" /\ Arg(c.handler, c.args, 1) \notin TaskMethods)
            => c.outcome.kind = "A2AError" /\ c.outcome.code = METHOD_NOT_FOUND

\* C28: when handle_request has returned, each unit that parses and names a
\* registered method has exactly one handler call in the log, that of the
\* handler registered under its method, and every other unit (malformed, or
\* naming an unregistered method) has none; an empty or undecodable body has
\* none at all.  A call whose arguments do not bind is made once and fails
\* before the handler's body runs.
C28_AtMostOneCallPerUnit ==
  Returned
  => /\ Len(invoked) <= UnitCount
     /\ \A i \in 1..UnitCount :
          IF WellFormed(UnitAt(i)) /\ UnitAt(i).method.v \in DOMAIN methods
            THEN /\ Len(CallsOf(i)) = 1
                 /\ CallsOf(i)[1].call.handler = methods[UnitAt(i).method.v]
            ELSE CallsOf(i) = <<>>

C28_Witness ==
  /\ Returned /\ BatchPayload /\ Len(body.items) = 2
  /\ WellFormed(body.items[1]) /\ body.items[1].method = StrMethod("echo")
  /\ "echo" \in DOMAIN methods /\ methods["echo"] = "ai_chat"
  /\ ~WellFormed(body.items[2])
  /\ Len(invoked) = 1 /\ invoked[1].unit = 1 /\ invoked[1].call.handler = "ai_chat"
  /\ invoked[1].call.outcome.kind # "return"

\* C29: handle_request never answers with an empty array: the payload [] is
\* answered like an empty body, with one error envelope; an array of one
\* element with one envelope; an array of N > 1 elements with an array of N
\* envelopes.
C29_NeverEmptyArray ==
  Returned
  => /\ response.shape \in {"single", "array"}
     /\ response.shape = "array" => Len(response.items) >= 2
     /\ body.json = "array"
          => IF Len(body.items) = 0
               THEN /\ response = Single(ProcessingError)
                    /\ response = Single(DispatchedAlone(EmptyObject).response)
             ELSE IF Len(body.items) = 1 THEN response.shape = "single"
             ELSE response.shape = "array" /\ Len(response.items) = Len(body.items)

C29_Witness ==
  /\ Returned /\ body.json = "array" /\ body.items = <<>>
  /\ response.shape = "single" /\ ~response.env.success
  /\ DOMAIN methods = RegNames

(***************************************************************************)
(* Properties of concurrent calls                                          *)
(***************************************************************************)

\* What handle_request answers to a payload when the call runs on its own
\* against the registry reg.
ResponseAlone(payload, reg, up) ==
  IF payload.json = "undecodable" THEN Single(InvalidJson)
  ELSE IF ~Truthy(payload) THEN Single(ProcessingError)
  ELSE IF payload.json = "array"
    THEN BatchResult([i \in 1..Len(payload.items) |->
                        ProcessSingleRequest(payload.items[i], reg, up).response])
  ELSE Single(ProcessSingleRequest(payload.unit, reg, up).response)

\* The calls the first n units of caller c's array make, unit after unit.
RECURSIVE CallerCallsInOrder(_, _)
CallerCallsInOrder(c, n) ==
  IF n = 0 THEN <<>>
  ELSE CallerCallsInOrder(c, n - 1)
         \o Logged(ProcessSingleRequest(inflight[c].body.items[n], methods, llm_up).calls, n)

\* C24: whatever the other caller's call is doing and whatever calls were
\* made before, the response of a call is the one the same payload gets when
\* it runs alone against the same registry, the units of a call's array are
\* processed in the order of the array, and a ping call is answered with the
\* same success result every time.
C24_CallsAreIndependent ==
  \A c \in Callers :
    /\ inflight[c].pc = "returned"
         => inflight[c].response = ResponseAlone(inflight[c].body, methods, llm_up)
    /\ (inflight[c].pc \in {"batch", "returned"} /\ inflight[c].body.json = "array")
         => inflight[c].invoked = CallerCallsInOrder(c, inflight[c].idx - 1)
    /\ (/\ inflight[c].pc = "returned"
        /\ inflight[c].body = Decoded("object", Object(StrMethod("ping"), AbsentParams, IntId(1)), <<>>))
         => inflight[c].response = Single(SuccessEnvelope(IntId(1), ping.value))

C24_Witness ==
  /\ inflight["c1"].pc = "batch" /\ inflight["c1"].idx = 2 /\ Len(inflight["c1"].body.items) = 2
  /\ inflight["c2"].pc = "batch" /\ inflight["c2"].idx = 2 /\ Len(inflight["c2"].body.items) = 2
  /\ inflight["c1"].body # inflight["c2"].body
  /\ inflight["c1"].results # inflight["c2"].results

====
